---- MODULE Spec2Model ----
(***************************************************************************)
(* Reference resolution of sarpt/openapi-utils (package pkg/openapi and    *)
(* the oas-yaml-combine entry points) as a state machine.                  *)
(*                                                                         *)
(* Go strings are sequences of tokens (a token stands for a character or   *)
(* an indivisible run of characters), so that the path functions of        *)
(* ref_utils.go are computed on the text of a path.  Go pointers, maps and *)
(* slices are addresses into a heap, so that two locations holding the     *)
(* same pointer share the object, as they do in the program.               *)
(***************************************************************************)
EXTENDS Integers, Sequences, FiniteSets, TLC

(***************************************************************************)
(* ref_utils.go: the path algebra                                          *)
(***************************************************************************)
referenceSeparator == "#"

pathSeparator == "/"

RECURSIVE IndexFrom(_, _, _)
IndexFrom(s, c, i) ==
  IF i > Len(s) THEN -1
  ELSE IF s[i] = c THEN i - 1
  ELSE IndexFrom(s, c, i + 1)

\* strings.IndexRune: 0-based index of the first c in s, -1 when there is none
IndexRune(s, c) == IndexFrom(s, c, 1)

\* strings.Split: the pieces of s between the occurrences of sep
RECURSIVE Split(_, _)
Split(s0, sep) ==
  CHOOSE res0 \in
    {IF i = -1 THEN <<s>>
     ELSE <<SubSeq(s, 1, i)>> \o Split(SubSeq(s, i + 2, Len(s)), sep) :
       s \in {s0}, i \in {IndexRune(s0, sep)}} : TRUE

isLocalReference(path) == IndexRune(path, referenceSeparator) = 0

splitReferenceByHash(path) == Split(path, referenceSeparator)

getDocumentPath(path) == splitReferenceByHash(path)[1]

\* a getPathToReference that returns the path as it is
getPathToReference_whole(path) == path

getPathToReference(path) ==
  IF isLocalReference(path) THEN path ELSE splitReferenceByHash(path)[2]

\* a conversion that keeps the document part
convertRemoteToLocalPath_keep(path) == path

convertRemoteToLocalPath(path) == <<referenceSeparator>> \o getPathToReference(path)

referencePathToItems(path) == Tail(Split(getPathToReference(path), pathSeparator))

\* sortReferences with the two classes exchanged
sortReferences_localFirst(refI, refJ) ==
  isLocalReference(refI.path) /\ ~isLocalReference(refJ.path)

sortReferences(refI, refJ) ==
  LET isILocal == isLocalReference(refI.path)
      isJLocal == isLocalReference(refJ.path)
  IN  ~isILocal /\ isJLocal

(***************************************************************************)
(* Values and heap objects                                                 *)
(***************************************************************************)
EmptyFn == [n \in {} |-> 0]

Str(s)    == [k |-> "str", a |-> 0, v |-> s]
Ptr(a)    == [k |-> "ptr", a |-> a, v |-> <<>>]
MapV(a)   == [k |-> "map", a |-> a, v |-> <<>>]
SliceV(a) == [k |-> "slice", a |-> a, v |-> <<>>]
NilPtr    == [k |-> "nilptr", a |-> 0, v |-> <<>>]
NilMap    == [k |-> "nilmap", a |-> 0, v |-> <<>>]
NilSlice  == [k |-> "nilslice", a |-> 0, v |-> <<>>]
\* the untyped nil handed to Set by Unset: reflect.ValueOf(nil) is the invalid Value
NilIface  == [k |-> "nil", a |-> 0, v |-> <<>>]

\* reflect.Value.IsZero; a struct held by value ("val") is written as the string
\* of its fields, a pointer to a map ("ptrmap") has the map as its heap object
IsZero(v) ==
  v.k \in {"nilptr", "nilmap", "nilslice", "nil"} \/ (v.k \in {"str", "val"} /\ v.v = <<>>)

\* reflect.Value.Kind
Kind(v) ==
  CASE v.k \in {"ptr", "nilptr", "ptrmap"} -> "Ptr"
    [] v.k \in {"map", "nilmap"} -> "Map"
    [] v.k \in {"slice", "nilslice"} -> "Slice"
    [] v.k = "str" -> "String"
    [] v.k = "val" -> "Struct"
    [] OTHER -> "Invalid"

ZeroOf(kind) ==
  CASE kind = "ptr" -> NilPtr
    [] kind = "map" -> NilMap
    [] kind = "slice" -> NilSlice
    [] kind = "struct" -> [k |-> "val", a |-> 0, v |-> <<>>]
    [] OTHER -> Str(<<>>)

(***************************************************************************)
(* types.go: the records of the schema, fields in declaration order, each  *)
(* with its Go name, its yaml key and the kind of its declared type        *)
(***************************************************************************)
Ref == <<"Ref">>

RootItem == <<"Root">>

Fld(n, tag, kind) == [n |-> <<n>>, tag |-> <<tag, ",", "omitempty">>, kind |-> kind]

Fields(t) ==
  CASE t = "OpenAPI" ->
         << Fld("Paths", "paths", "map"), Fld("Components", "components", "ptr") >>
    [] t = "PathItem" ->
         << Fld("Ref", "$ref", "string"), Fld("Get", "get", "ptr") >>
    [] t = "Operation" ->
         << Fld("Tags", "tags", "slice"), Fld("Responses", "responses", "map"),
            Fld("Security", "security", "ptr") >>
    [] t = "Response" ->
         << Fld("Ref", "$ref", "string"), Fld("Content", "content", "map"),
            Fld("Description", "description", "string") >>
    [] t = "MediaType" ->
         << Fld("Ref", "$ref", "string"), Fld("Schema", "schema", "ptr") >>
    [] t = "Schema" ->
         << Fld("Ref", "$ref", "string"), Fld("XML", "xml", "struct"),
            Fld("Type", "type", "string"), Fld("Items", "items", "ptr"),
            Fld("AllOf", "allOf", "slice") >>
    [] t = "Components" ->
         << Fld("Schemas", "schemas", "map"), Fld("Responses", "responses", "map") >>
    [] OTHER -> << >>

FieldNames(t) == {Fields(t)[i].n : i \in 1..Len(Fields(t))}

FieldOf(t, n) == Fields(t)[CHOOSE i \in 1..Len(Fields(t)) : Fields(t)[i].n = n]

(***************************************************************************)
(* yaml.Unmarshal: a parsed file is a tree of freshly allocated objects.   *)
(* A file's content is written as a tree; Alloc lays it out on the heap    *)
(* from address nxt on and returns the objects, the next free address and  *)
(* the value of the root.                                                  *)
(***************************************************************************)
TStr(s)    == [k |-> "str", t |-> "", x |-> EmptyFn, s |-> <<>>, v |-> s]
TRec(t, x) == [k |-> "rec", t |-> t, x |-> x, s |-> <<>>, v |-> <<>>]
TMap(x)    == [k |-> "map", t |-> "", x |-> x, s |-> <<>>, v |-> <<>>]
TSeq(s)    == [k |-> "seq", t |-> "", x |-> EmptyFn, s |-> s, v |-> <<>>]
TNil       == [k |-> "nil", t |-> "", x |-> EmptyFn, s |-> <<>>, v |-> <<>>]

Perms(S) == {p \in [1..Cardinality(S) -> S] : \A i, j \in 1..Cardinality(S) : i # j => p[i] # p[j]}

SetToSeq(S) == CHOOSE p \in Perms(S) : TRUE

RECURSIVE Alloc(_, _), AllocKids(_, _, _), AllocSeq(_, _)
Alloc(tr0, nxt0) ==
  CHOOSE res0 \in {
      CASE tr.k = "str" -> [h |-> EmptyFn, nxt |-> nxt, v |-> Str(tr.v)]
        [] tr.k = "rec" ->
             CHOOSE r \in
               {[h |-> (nxt :> [k |-> "struct", t |-> tr.t, s |-> <<>>,
                                x |-> [f \in FieldNames(tr.t) |->
                                         IF f \in DOMAIN tr.x THEN kids.v[f]
                                         ELSE ZeroOf(FieldOf(tr.t, f).kind)]]) @@ kids.h,
                 nxt |-> kids.nxt, v |-> Ptr(nxt)] :
                  kids \in {AllocKids(SetToSeq(DOMAIN tr.x), tr.x, nxt + 1)}} : TRUE
        [] tr.k = "map" ->
             CHOOSE r \in
               {[h |-> (nxt :> [k |-> "map", t |-> "", s |-> <<>>, x |-> kids.v]) @@ kids.h,
                 nxt |-> kids.nxt, v |-> MapV(nxt)] :
                  kids \in {AllocKids(SetToSeq(DOMAIN tr.x), tr.x, nxt + 1)}} : TRUE
        [] tr.k = "seq" ->
             CHOOSE r \in
               {[h |-> (nxt :> [k |-> "slice", t |-> "", s |-> kids.v, x |-> EmptyFn]) @@ kids.h,
                 nxt |-> kids.nxt, v |-> SliceV(nxt)] :
                  kids \in {AllocSeq(tr.s, nxt + 1)}} : TRUE
        [] tr.k = "pmap" ->
             CHOOSE r \in
               {[h |-> (nxt :> [k |-> "map", t |-> "", s |-> <<>>, x |-> kids.v]) @@ kids.h,
                 nxt |-> kids.nxt, v |-> [k |-> "ptrmap", a |-> nxt, v |-> <<>>]] :
                  kids \in {AllocKids(SetToSeq(DOMAIN tr.x), tr.x, nxt + 1)}} : TRUE
        [] tr.k = "val" -> [h |-> EmptyFn, nxt |-> nxt, v |-> [k |-> "val", a |-> 0, v |-> tr.v]]
        [] OTHER -> [h |-> EmptyFn, nxt |-> nxt, v |-> NilPtr] :
    tr \in {tr0}, nxt \in {nxt0}} : TRUE

AllocKids(keys0, kv0, nxt0) ==
  CHOOSE res0 \in {
      IF keys = <<>> THEN [h |-> EmptyFn, nxt |-> nxt, v |-> EmptyFn]
      ELSE CHOOSE res \in
             UNION {{[h |-> a.h @@ r.h, nxt |-> r.nxt, v |-> (Head(keys) :> a.v) @@ r.v] :
                       r \in {AllocKids(Tail(keys), kv, a.nxt)}} :
                      a \in {Alloc(kv[Head(keys)], nxt)}} : TRUE :
    keys \in {keys0}, kv \in {kv0}, nxt \in {nxt0}} : TRUE

AllocSeq(items0, nxt0) ==
  CHOOSE res0 \in {
      IF items = <<>> THEN [h |-> EmptyFn, nxt |-> nxt, v |-> <<>>]
      ELSE CHOOSE res \in
             UNION {{[h |-> a.h @@ r.h, nxt |-> r.nxt, v |-> <<a.v>> \o r.v] :
                       r \in {AllocSeq(Tail(items), a.nxt)}} :
                      a \in {Alloc(Head(items), nxt)}} : TRUE :
    items \in {items0}, nxt \in {nxt0}} : TRUE

(***************************************************************************)
(* yaml.Marshal: the tree a value serialises to.  Every field of types.go  *)
(* is tagged omitempty: a zero field and an empty map or slice are left    *)
(* out; a map entry or a slice element is always written.                  *)
(***************************************************************************)
OmitEmpty(h, v) ==
  \/ IsZero(v)
  \/ v.k = "map" /\ DOMAIN h[v.a].x = {}
  \/ v.k = "slice" /\ h[v.a].s = <<>>

RECURSIVE Ser(_, _)
Ser(h, v) ==
  CASE v.k = "str" -> TStr(v.v)
    [] v.k = "ptr" ->
         TRec(h[v.a].t, [f \in {g \in DOMAIN h[v.a].x : ~OmitEmpty(h, h[v.a].x[g])} |->
                           Ser(h, h[v.a].x[f])])
    [] v.k = "map" -> TMap([key \in DOMAIN h[v.a].x |-> Ser(h, h[v.a].x[key])])
    [] v.k = "slice" -> TSeq([i \in 1..Len(h[v.a].s) |-> Ser(h, h[v.a].s[i])])
    [] v.k = "ptrmap" ->
         [TMap([key \in DOMAIN h[v.a].x |-> Ser(h, h[v.a].x[key])]) EXCEPT !.k = "pmap"]
    [] v.k = "val" -> [TStr(v.v) EXCEPT !.k = "val"]
    [] OTHER -> TNil

(***************************************************************************)
(* oas_object.go: OasObject, a place inside a document's tree.  p is the   *)
(* parent (a pointer to a record, a map or a slice; for the root object a  *)
(* pointer to the Document), n the name, i the index and inst the value    *)
(* parse found there.  Operations return the heap they leave and e, the    *)
(* error ("" for none, "panic" for a run-time panic of package reflect).   *)
(***************************************************************************)
DocPtr(d) == [k |-> "doc", a |-> d, v |-> <<>>]

Obj(p, n, i, inst) == [p |-> p, n |-> n, i |-> i, inst |-> inst]

\* itemFromMapByName
itemFromMapByName(h, mapVal, key) ==
  IF mapVal.k = "map" /\ key \in DOMAIN h[mapVal.a].x
  THEN [v |-> h[mapVal.a].x[key], e |-> ""]
  ELSE [v |-> NilIface, e |-> "ErrNoValueWithKey"]

\* OasObject.parse, as called by NewOasObjectByName and NewOasObjectByIdx
parse(h, p, n, i) ==
  CASE Kind(p) = "Ptr" ->
         IF p.k = "nilptr" \/ n \notin DOMAIN h[p.a].x
         THEN [v |-> NilIface, e |-> "panic"]
         ELSE IF IsZero(h[p.a].x[n])
         THEN [v |-> NilIface, e |-> "ErrFieldWithNameUnusable"]
         ELSE [v |-> h[p.a].x[n], e |-> ""]
    [] Kind(p) = "Map" -> itemFromMapByName(h, p, n)
    [] Kind(p) = "Slice" ->
         IF p.k = "slice" /\ i + 1 \in 1..Len(h[p.a].s)
         THEN [v |-> h[p.a].s[i + 1], e |-> ""]
         ELSE [v |-> NilIface, e |-> "panic"]
    [] OTHER -> [v |-> NilIface, e |-> "ErrIncorrectParent"]

NewOasObjectByName(h, p, n) ==
  LET r == parse(h, p, n, 0) IN [o |-> Obj(p, n, 0, r.v), e |-> r.e]

NewOasObjectByIdx(h, p, i) ==
  LET r == parse(h, p, <<>>, i) IN [o |-> Obj(p, <<>>, i, r.v), e |-> r.e]

\* a Set that returns an error and writes nothing
Set_refusing(h, o, val) == [h |-> h, e |-> "ErrNoValueWithKey"]

\* OasObject.Set
Set(h, o, val) ==
  CASE Kind(o.p) = "Slice" ->
         IF o.p.k = "slice" /\ o.i + 1 \in 1..Len(h[o.p.a].s) /\ val.k # "nil"
         THEN [h |-> [h EXCEPT ![o.p.a].s[o.i + 1] = val], e |-> ""]
         ELSE [h |-> h, e |-> "panic"]
    [] Kind(o.p) = "Ptr" ->
         IF o.p.k = "ptr" /\ o.n \in DOMAIN h[o.p.a].x /\ val.k # "nil"
         THEN [h |-> [h EXCEPT ![o.p.a].x[o.n] = val], e |-> ""]
         ELSE [h |-> h, e |-> "panic"]
    [] Kind(o.p) = "Map" ->
         IF o.p.k = "nilmap" THEN [h |-> h, e |-> "panic"]
         ELSE IF val.k = "nil"
         THEN [h |-> [h EXCEPT ![o.p.a].x =
                        [key \in DOMAIN h[o.p.a].x \ {o.n} |-> h[o.p.a].x[key]]],
               e |-> ""]
         ELSE [h |-> [h EXCEPT ![o.p.a].x = (o.n :> val) @@ h[o.p.a].x], e |-> ""]
    [] OTHER -> [h |-> h, e |-> "ErrIncorrectParent"]

\* OasObject.Unset
Unset(h, o) == Set(h, o, NilIface)

(***************************************************************************)
(* oas_object.go: discovery.  A map is ranged over in an order the Go      *)
(* runtime picks, so discovery has a set of outcomes; each is the list of  *)
(* references r found, or an error e.                                      *)
(***************************************************************************)
Composite(v) == Kind(v) \in {"Struct", "Ptr", "Map", "Slice"}

\* parsePtrValue: the reference path of a record, or else its fields to descend into
\* (fs: the fields of the record's type in the order of their declaration)
RECURSIVE parsePtrFrom(_, _, _, _, _)
parsePtrFrom(h, a, fs, i, acc) ==
  IF i > Len(fs) THEN [ref |-> <<>>, fields |-> acc]
  ELSE LET child == h[a].x[fs[i].n] IN
       IF IsZero(child) THEN parsePtrFrom(h, a, fs, i + 1, acc)
       ELSE IF Kind(child) = "String"
       THEN IF fs[i].n = Ref THEN [ref |-> child.v, fields |-> <<>>]
            ELSE parsePtrFrom(h, a, fs, i + 1, acc)
       ELSE parsePtrFrom(h, a, fs, i + 1, Append(acc, fs[i].n))

\* a parsePtrValue that does not look at the Ref field
parsePtrValue_noRef(h, value) ==
  parsePtrFrom(h, value.a, SelectSeq(Fields(h[value.a].t), LAMBDA f : f.n # Ref), 1, <<>>)

parsePtrValue(h, value) == parsePtrFrom(h, value.a, Fields(h[value.a].t), 1, <<>>)

\* parseMapValue: the keys to descend into, in each order MapRange may produce
\* (a string entry under the key Ref is a reference path)
mapRefKeys(h, value) ==
  {key \in DOMAIN h[value.a].x :
     /\ ~IsZero(h[value.a].x[key])
     /\ Kind(h[value.a].x[key]) = "String"
     /\ key = Ref}

mapKeysToParse(h, value) ==
  {key \in DOMAIN h[value.a].x :
     ~IsZero(h[value.a].x[key]) /\ Composite(h[value.a].x[key])}

\* parseSliceValue: a string element equal to Ref counts as a reference path
RECURSIVE sliceRefsFrom(_, _, _)
sliceRefsFrom(h, value, i) ==
  IF i > Len(h[value.a].s) THEN <<>>
  ELSE LET child == h[value.a].s[i] IN
       (IF ~IsZero(child) /\ Kind(child) = "String" /\ child.v = Ref
        THEN <<child.v>> ELSE <<>>) \o sliceRefsFrom(h, value, i + 1)

RECURSIVE sliceIndexesFrom(_, _, _)
sliceIndexesFrom(h, value, i) ==
  IF i > Len(h[value.a].s) THEN <<>>
  ELSE LET child == h[value.a].s[i] IN
       (IF ~IsZero(child) /\ Composite(child) THEN <<i - 1>> ELSE <<>>)
         \o sliceIndexesFrom(h, value, i + 1)

Outcome(r, e) == [r |-> r, e |-> e]

\* allRefs = append(allRefs, objRefs...) with the early return on an error
ThenOutcomes(A, B) ==
  {IF a.e # "" THEN a ELSE IF b.e # "" THEN b ELSE Outcome(a.r \o b.r, "") :
     a \in A, b \in B}

RefsWithPath(o, paths) == [i \in 1..Len(paths) |-> [object |-> o, path |-> paths[i]]]

RECURSIVE references(_, _), childReferences(_, _, _, _)
references(h0, o0) ==
  UNION {
      LET value == o.inst IN
      CASE value.k = "ptr" ->
             LET p == parsePtrValue(h, value) IN
             IF p.ref # <<>> THEN {Outcome(<<[object |-> o, path |-> p.ref]>>, "")}
             ELSE childReferences(h, value, p.fields, TRUE)
        [] value.k = "map" ->
             LET own == {Outcome(RefsWithPath(o, ks), "") :
                           ks \in {[i \in 1..Len(q) |-> h[value.a].x[q[i]].v] :
                                     q \in Perms(mapRefKeys(h, value))}}
                 kids == UNION {childReferences(h, value, q, TRUE) :
                                  q \in Perms(mapKeysToParse(h, value))}
             IN  ThenOutcomes(own, kids)
        [] value.k = "slice" ->
             ThenOutcomes({Outcome(RefsWithPath(o, sliceRefsFrom(h, value, 1)), "")},
                          childReferences(h, value, sliceIndexesFrom(h, value, 1), FALSE))
        [] value.k \in {"nilptr", "ptrmap"} -> {Outcome(<<>>, "panic")}
        [] value.k \in {"nilmap", "nilslice"} -> {Outcome(<<>>, "")}
        [] OTHER -> {Outcome(<<>>, "ErrIncorrectObjectType")} :
    h \in {h0}, o \in {o0}}

\* the loop over the fields, keys or indexes to descend into, in the order given
childReferences(h, value, names, byName) ==
  IF names = <<>> THEN {Outcome(<<>>, "")}
  ELSE UNION {ThenOutcomes(IF c.e # "" THEN {Outcome(<<>>, c.e)} ELSE references(h, c.o),
                           childReferences(h, value, Tail(names), byName)) :
                c \in {IF byName THEN NewOasObjectByName(h, value, Head(names))
                       ELSE NewOasObjectByIdx(h, value, Head(names))}}

(***************************************************************************)
(* oas_object.go: OasObject.Init                                           *)
(***************************************************************************)
NextAddr(h) == Cardinality(DOMAIN h) + 1

EmptyMapObj == [k |-> "map", t |-> "", s |-> <<>>, x |-> EmptyFn]

InitObject(h, o) ==
  CASE o.p.k = "ptr" ->
         IF o.n \notin FieldNames(h[o.p.a].t) THEN [h |-> h, e |-> "ErrFieldWithNameNotInType"]
         ELSE IF FieldOf(h[o.p.a].t, o.n).kind # "map" THEN [h |-> h, e |-> ""]
         ELSE LET a == NextAddr(h)
              IN  [h |-> Set(h @@ (a :> EmptyMapObj), o, MapV(a)).h, e |-> ""]
    [] Kind(o.p) = "Map" ->
         IF o.p.k = "nilmap" THEN [h |-> h, e |-> "panic"]
         ELSE [h |-> Set(h, o, NilPtr).h, e |-> ""]
    [] Kind(o.p) = "Slice" -> [h |-> h, e |-> "ErrIncorrectParent"]
    [] OTHER -> [h |-> h, e |-> "panic"]

(***************************************************************************)
(* document.go: walking a reference path, replacing a reference            *)
(***************************************************************************)
YamlTagSeparator == ","

\* getYamlKeyFromField
getYamlKeyFromField(field) == Split(field.tag, YamlTagSeparator)[1]

\* getFieldByTag: the first field of the record whose yaml key is tag
getFieldByTag(h, tag, structItem) ==
  LET fs  == Fields(h[structItem.a].t)
      hit == {i \in 1..Len(fs) : getYamlKeyFromField(fs[i]) = tag}
  IN  IF hit = {} THEN [v |-> NilIface, n |-> <<>>, e |-> "no field with tag"]
      ELSE LET i == CHOOSE j \in hit : \A l \in hit : j <= l
           IN  [v |-> h[structItem.a].x[fs[i].n], n |-> fs[i].n, e |-> ""]

RECURSIVE walkItems(_, _, _)
walkItems(h0, parentValue0, itemNames0) ==
  CHOOSE res0 \in {
      IF itemNames = <<>> THEN [v |-> parentValue, e |-> ""]
      ELSE CASE Kind(parentValue) = "Ptr" ->
                  IF parentValue.k = "nilptr" THEN [v |-> NilIface, e |-> "panic"]
                  ELSE CHOOSE r \in
                         {IF c.e # "" THEN [v |-> NilIface, e |-> "could not find item"]
                          ELSE walkItems(h, c.v, Tail(itemNames)) :
                            c \in {getFieldByTag(h, Head(itemNames), parentValue)}} : TRUE
             [] Kind(parentValue) = "Map" ->
                  CHOOSE r \in
                    {IF c.e # "" THEN [v |-> NilIface, e |-> "could not resolve path"]
                     ELSE walkItems(h, c.v, Tail(itemNames)) :
                       c \in {itemFromMapByName(h, parentValue, Head(itemNames))}} : TRUE
             [] OTHER -> [v |-> NilIface, e |-> "path including incorrect items"] :
    h \in {h0}, parentValue \in {parentValue0}, itemNames \in {itemNames0}} : TRUE

\* Document.getItemByPath
getItemByPath(h, root, refPath) == walkItems(h, root, referencePathToItems(refPath))

\* a replaceReference that leaves the object as it is
replaceReference_noop(h, object, ref) == [h |-> h, e |-> ""]

\* replaceReference
replaceReference(h, object, ref) ==
  CASE Kind(object.p) = "Slice" ->
         IF object.p.k = "slice" /\ object.i + 1 \in 1..Len(h[object.p.a].s) /\ ref.k # "nil"
         THEN [h |-> [h EXCEPT ![object.p.a].s[object.i + 1] = ref], e |-> ""]
         ELSE [h |-> h, e |-> "panic"]
    [] Kind(object.p) = "Ptr" ->
         IF object.p.k = "ptr" /\ object.n \in DOMAIN h[object.p.a].x /\ ref.k # "nil"
         THEN [h |-> [h EXCEPT ![object.p.a].x[object.n] = ref], e |-> ""]
         ELSE [h |-> h, e |-> "panic"]
    [] Kind(object.p) = "Map" ->
         IF itemFromMapByName(h, object.p, object.n).e # ""
         THEN [h |-> h, e |-> "could not find key in map"]
         ELSE IF ref.k = "nil"
         THEN [h |-> [h EXCEPT ![object.p.a].x =
                        [key \in DOMAIN h[object.p.a].x \ {object.n} |-> h[object.p.a].x[key]]],
               e |-> ""]
         ELSE [h |-> [h EXCEPT ![object.p.a].x[object.n] = ref], e |-> ""]
    [] OTHER -> [h |-> h, e |-> ""]

\* Document.assignReference, once the referenced document (its root) is at hand
assignReference(h, referencedRoot, ref) ==
  LET refItem == getItemByPath(h, referencedRoot, ref.path)
  IN  IF refItem.e # "" THEN [h |-> h, e |-> refItem.e]
      ELSE replaceReference(h, ref.object, refItem.v)

\* filepath.Join(dir, path), filepath.Dir and filepath.Base of a joined path
Join(dir, path) == dir \o <<pathSeparator>> \o path

RECURSIVE LastIndex(_, _, _)
LastIndex(s, c, i) == IF i = 0 THEN 0 ELSE IF s[i] = c THEN i ELSE LastIndex(s, c, i - 1)

Dir(path) == SubSeq(path, 1, LastIndex(path, pathSeparator, Len(path)) - 1)

Base(path) == SubSeq(path, LastIndex(path, pathSeparator, Len(path)) + 1, Len(path))

(***************************************************************************)
(* The steps of the final design that no file of the repository carries:   *)
(* clearing the target of an inlined local reference (keep-local) and      *)
(* promoting a remote reference into the combining document.  They follow  *)
(* sections 4.2 and 4.5 of the specification and use Init, Set and Unset   *)
(* of oas_object.go and convertRemoteToLocalPath of ref_utils.go.          *)
(***************************************************************************)
\* the name under which a path item is found in a parent: the Go name of the
\* field with that yaml key for a record, the key itself for a map
nameInParent(h, parent, item) ==
  IF parent.k = "ptr" THEN getFieldByTag(h, item, parent).n ELSE item

\* the object named n in parent, or the error of looking it up
childObject(h, parent, n) ==
  IF parent.k = "ptr" /\ n = <<>>
  THEN [o |-> Obj(parent, n, 0, NilIface), e |-> "ErrFieldWithNameNotInType"]
  ELSE NewOasObjectByName(h, parent, n)

isAbsent(e) == e \in {"ErrFieldWithNameUnusable", "ErrNoValueWithKey"}

\* the object named n in parent once Init has made it live
liveObject(h, parent, n, made) ==
  IF made.e # "" THEN [h |-> made.h, o |-> Obj(parent, n, 0, NilIface), e |-> made.e]
  ELSE [h |-> made.h, o |-> NewOasObjectByName(made.h, parent, n).o,
        e |-> NewOasObjectByName(made.h, parent, n).e]

\* one step of a pointer path: the object named n in parent, an absent or zero
\* one made live with Init when init is set
locateStep(h, parent, n, c, init) ==
  IF init /\ isAbsent(c.e) THEN liveObject(h, parent, n, InitObject(h, c.o))
  ELSE [h |-> h, o |-> c.o, e |-> c.e]

\* the error of a step: the last location of a path may be absent when it is to be set
stepError(e, init, last) ==
  IF e = "" \/ e = "panic" THEN e
  ELSE IF last /\ init /\ isAbsent(e) THEN ""
  ELSE IF last /\ ~isAbsent(e) THEN e
  ELSE "LocationUnresolvable"

\* the location a pointer path names in the document, every absent or zero
\* location on the way (and the last one) made live with Init when init is set
RECURSIVE locateFrom(_, _, _)
locateFrom(s0, itemNames0, init0) ==
  CHOOSE res0 \in {
      IF stepError(s.e, init, FALSE) # "" \/ itemNames = <<>>
      THEN [s EXCEPT !.e = stepError(s.e, init, itemNames = <<>>)]
      ELSE IF ~Composite(s.o.inst) \/ s.o.inst.k = "nilptr"
      THEN [s EXCEPT !.e = "LocationUnresolvable"]
      ELSE CHOOSE r \in
             {locateFrom(n, Tail(itemNames), init) :
                n \in {locateStep(s.h, s.o.inst,
                                  nameInParent(s.h, s.o.inst, Head(itemNames)),
                                  childObject(s.h, s.o.inst,
                                              nameInParent(s.h, s.o.inst, Head(itemNames))),
                                  init)}} : TRUE :
    s \in {s0}, itemNames \in {itemNames0}, init \in {init0}} : TRUE

locate(h, root, itemNames, init) ==
  locateFrom([h |-> h, o |-> Obj(NilIface, <<>>, 0, root), e |-> ""], itemNames, init)

\* section 4.5, local branch: clear() the original target location
clearTarget(h, root, path) ==
  CHOOSE res0 \in
    {IF l.e # "" THEN [h |-> l.h, e |-> l.e] ELSE Unset(l.h, l.o) :
       l \in {locate(h, root, referencePathToItems(path), FALSE)}} : TRUE

\* a promotion that rewrites the reference node and sets no content
promoteReference_rewriteOnly(h, root, ref, refItem) ==
  [h |-> [h EXCEPT ![ref.object.inst.a].x[Ref] = Str(convertRemoteToLocalPath(ref.path))],
   e |-> ""]

\* section 4.5, remote branch: init()-then-set() the target value at the promoted
\* location, then rewrite the reference node (the record discovery found at the
\* reference's location) to the promoted local path
promoteReference(h, root, ref, refItem) ==
  CHOOSE res0 \in
    {IF s.e # "" THEN [h |-> h, e |-> s.e]
     ELSE [h |-> [s.h EXCEPT ![ref.object.inst.a].x[Ref] =
                               Str(convertRemoteToLocalPath(ref.path))],
           e |-> ""] :
       s \in {IF l.e # "" THEN [h |-> l.h, e |-> l.e] ELSE Set(l.h, l.o, refItem) :
                l \in {locate(h, root,
                              referencePathToItems(convertRemoteToLocalPath(ref.path)),
                              TRUE)}}} : TRUE

(***************************************************************************)
(* The files of a run.  A document lists its paths (each with one response *)
(* under get.responses["200"]) and its components.responses entries; an    *)
(* entry is a reference path, or <<>> for a response with content.         *)
(***************************************************************************)
LocalTo(name) ==
  <<"#", "/", "components", "/", "responses", "/", name>>

RemoteTo(file, name) ==
  <<file, "#", "/", "components", "/", "responses", "/", name>>

ResponseTree(file, name, path) ==
  IF path = <<>>
  THEN TRec("Response", (<<"Description">> :> TStr(<<file, name>>)))
  ELSE TRec("Response", (<<"Ref">> :> TStr(path)))

PathItemTree(file, name, path) ==
  TRec("PathItem",
       (<<"Get">> :> TRec("Operation",
          (<<"Responses">> :> TMap((<<"200">> :> ResponseTree(file, name, path)))))))

DocTree(file, c) ==
  TRec("OpenAPI",
       (IF DOMAIN c.paths = {} THEN EmptyFn
        ELSE (<<"Paths">> :>
                TMap([key \in DOMAIN c.paths |-> PathItemTree(file, key[1], c.paths[key])])))
       @@
       (IF ~c.hasComps THEN EmptyFn
        ELSE (<<"Components">> :>
                TRec("Components",
                     IF DOMAIN c.comps = {} THEN EmptyFn
                     ELSE (<<"Responses">> :>
                             TMap([key \in DOMAIN c.comps |->
                                     ResponseTree(file, key[1], c.comps[key])]))))))

Content(paths, comps, hasComps) == [paths |-> paths, comps |-> comps, hasComps |-> hasComps]

\* the referenced files present in the reference directory; x.yaml is absent
Files ==
  (<<"/", "dir", "/", "b.yaml">> :>
     Content(EmptyFn,
             (<<"Shops">> :> <<>>) @@ (<<"X">> :> LocalTo("Y")) @@ (<<"Y">> :> <<>>)
               @@ (<<"Z">> :> RemoteTo("c.yaml", "W")),
             TRUE))
  @@
  (<<"/", "dir", "/", "c.yaml">> :>
     Content(EmptyFn, (<<"W">> :> <<>>) @@ (<<"Y">> :> <<>>), TRUE))
  @@
  (<<"/", "dir", "/", "d.yaml">> :>
     Content(EmptyFn, (<<"Q">> :> RemoteTo("x.yaml", "Q")), TRUE))

\* the root documents of the runs
RootDocuments ==
  { \* examples/test.yaml: a local reference to a location holding a remote one
    Content((<<"shops">> :> LocalTo("Shops")) @@ (<<"users">> :> LocalTo("Users")),
            (<<"Users">> :> <<>>) @@ (<<"Shops">> :> RemoteTo("b.yaml", "Shops")), TRUE),
    \* two local references to one target
    Content((<<"p1">> :> LocalTo("Users")) @@ (<<"p2">> :> LocalTo("Users")),
            (<<"Users">> :> <<>>), TRUE),
    \* a chain of local references
    Content((<<"p1">> :> LocalTo("U1")),
            (<<"U1">> :> LocalTo("U2")) @@ (<<"U2">> :> <<>>), TRUE),
    \* a remote target that is a local reference of its file; a local reference
    Content((<<"p1">> :> RemoteTo("b.yaml", "X")) @@ (<<"p2">> :> LocalTo("Users")),
            (<<"Users">> :> <<>>), TRUE),
    \* one file through two references
    Content((<<"p1">> :> RemoteTo("b.yaml", "Shops")) @@ (<<"p2">> :> RemoteTo("b.yaml", "Y")),
            (<<"Users">> :> <<>>), TRUE),
    \* one file through two documents
    Content((<<"p1">> :> RemoteTo("b.yaml", "Z")) @@ (<<"p2">> :> RemoteTo("c.yaml", "W")),
            (<<"Users">> :> <<>>), TRUE),
    \* two files, one pointer part
    Content((<<"p1">> :> RemoteTo("b.yaml", "Y")) @@ (<<"p2">> :> RemoteTo("c.yaml", "Y")),
            (<<"Users">> :> <<>>), TRUE),
    \* a pointer part that is the path of a response the root document has
    Content((<<"p1">> :> RemoteTo("b.yaml", "Y")), (<<"Y">> :> <<>>), TRUE),
    \* no components section
    Content((<<"p1">> :> RemoteTo("b.yaml", "Shops")), EmptyFn, FALSE),
    \* a file that is absent, directly and behind a file
    Content((<<"p1">> :> RemoteTo("x.yaml", "Q")) @@ (<<"p2">> :> LocalTo("Users")),
            (<<"Users">> :> <<>>), TRUE),
    Content((<<"p1">> :> RemoteTo("d.yaml", "Q")), (<<"Users">> :> <<>>), TRUE),
    \* a pointer to a key that is absent
    Content((<<"p1">> :> LocalTo("Nope")), (<<"Users">> :> <<>>), TRUE),
    \* a pointer to a key that is absent, among pointers to keys that are there
    Content((<<"p1">> :> LocalTo("Users")) @@ (<<"p2">> :> LocalTo("Nope"))
              @@ (<<"p3">> :> LocalTo("Users")),
            (<<"Users">> :> <<>>), TRUE) }

Configs ==
  [InlineLocalRefs : BOOLEAN, InlineRemoteRefs : BOOLEAN, KeepLocalRefs : BOOLEAN]

(***************************************************************************)
(* The state: the heap, the Documents of the session (docs[1] is the root  *)
(* document), the calls of ResolveReferences in progress, innermost last,  *)
(* the files read (each with the document that asked for it), the outcome  *)
(* of the run, the number of the call of ResolveReferences on the root     *)
(* document and the root document's serialised tree before the first call  *)
(* and after each call that succeeded, and the program that runs, if the   *)
(* Document is used by one of the two programs.                            *)
(***************************************************************************)
VARIABLES heap, docs, stack, reads, status, pass, trees, proc

vars == <<heap, docs, stack, reads, status, pass, trees, proc>>

\* how many times ResolveReferences is called on the root document in a run
MaxPasses == 2

\* NewDocument followed by the reading of the document
NewDocument(cfg, dir, name, root) ==
  [Cfg |-> cfg, RefDirectory |-> dir, FileName |-> name, Root |-> root,
   ReferencedDocuments |-> EmptyFn]

Frame(d) == [d |-> d, disc |-> <<>>, refs |-> <<>>, i |-> 1, pc |-> "discover"]

Top == stack[Len(stack)]

TopDoc == docs[Top.d]

SetTop(f) == [stack EXCEPT ![Len(stack)] = f]

\* a sort that loses the first reference
SortResults_dropFirst(refs) == {SubSeq(refs, 2, Len(refs))}

\* the sort.Slice call of ResolveReferences: sort.Slice is not stable, its result
\* is some permutation of refs that the less function finds in order
SortResults(refs) ==
  {[i \in 1..Len(refs) |-> refs[p[i]]] : p \in
     {q \in Perms(1..Len(refs)) :
        \A i, j \in 1..Len(refs) : i < j => ~sortReferences(refs[q[j]], refs[q[i]])}}

\* a loop that goes on to the next reference after an error
Failed_goOn(e) ==
  /\ stack' = SetTop([Top EXCEPT !.i = @ + 1])
  /\ UNCHANGED status

\* the call ends with error e: a panic ends the process, an error ends the call
Failed(e) ==
  /\ stack' = SetTop([Top EXCEPT !.pc = "failed"])
  /\ status' = IF e = "panic" THEN "panic" ELSE IF Len(stack) = 1 THEN "error" ELSE status

(***************************************************************************)
(* The two programs that use a Document: main of cmd/oas-yaml-combine and  *)
(* oasYamlCombine of lib/oas-yaml-combine.                                 *)
(***************************************************************************)
NoError == 0
InputFilepathErr == 11
InputStdinErr == 12
RefDirCwdErr == 13
OutputFilepathErr == 21
OutputWriteErr == 22
OutputStdoutErr == 23
RootDocumentErr == 31
RefResolveErr == 32

\* os.Exit(1) of log.Fatalf
FatalStatus == 1

\* the exit status of a Go program that ends with a panic
PanicStatus == 2

\* the places where a program gives up, "" for none
Failures ==
  {"input path", "root document", "stdin", "cwd", "resolve", "output path",
   "output write", "stdout", "panic"}

\* the status with which a program ends after a failure: the return values of
\* oasYamlCombine; in main log.Fatalf, and no exit after the message about stdout
ExitStatus(program, failure) ==
  IF failure = "panic" THEN PanicStatus
  ELSE IF program = "lib"
  THEN CASE failure = "" -> NoError
         [] failure = "input path" -> InputFilepathErr
         [] failure = "root document" -> RootDocumentErr
         [] failure = "stdin" -> InputStdinErr
         [] failure = "cwd" -> RefDirCwdErr
         [] failure = "resolve" -> RefResolveErr
         [] failure = "output path" -> OutputFilepathErr
         [] failure = "output write" -> OutputWriteErr
         [] failure = "stdout" -> OutputStdoutErr
  ELSE IF failure \in {"", "stdout"} THEN NoError ELSE FatalStatus

\* the flags of a program, the working directory of its process (<<>> when
\* os.Getwd fails), where it is, how it has ended, and where it has called
\* WriteFile or Write to write the document
Process(program, inputFile, outputFile, refDirectory, cwd) ==
  [program |-> program, inputFile |-> inputFile, outputFile |-> outputFile,
   refDirectory |-> refDirectory, cwd |-> cwd, pc |-> "start", failure |-> "",
   exit |-> -1, out |-> "none"]

\* a Document used without a program around it
NoProcess == [Process("none", <<>>, <<>>, <<>>, <<>>) EXCEPT !.pc = "resolve"]

\* filepath.Abs: a rooted path as it is, another one joined to os.Getwd
Abs(cwd, path) ==
  IF path # <<>> /\ Head(path) = pathSeparator THEN [v |-> path, e |-> ""]
  ELSE IF cwd = <<>> THEN [v |-> <<>>, e |-> "getwd"]
  ELSE [v |-> Join(cwd, path), e |-> ""]

\* the programs up to ResolveReferences: where they give up, and the reference
\* directory and file name of the root document; input tells how reading goes
ReadRoot(p, input) ==
  IF p.inputFile # <<>>
  THEN IF Abs(p.cwd, p.inputFile).e # "" THEN [failure |-> "input path", dir |-> <<>>, name |-> <<>>]
       ELSE IF input # "ok" THEN [failure |-> "root document", dir |-> <<>>, name |-> <<>>]
       ELSE [failure |-> "", dir |-> Dir(Abs(p.cwd, p.inputFile).v),
             name |-> Base(Abs(p.cwd, p.inputFile).v)]
  ELSE IF input # "ok" THEN [failure |-> "stdin", dir |-> <<>>, name |-> <<>>]
  ELSE IF p.refDirectory # <<>> THEN [failure |-> "", dir |-> p.refDirectory, name |-> <<>>]
  ELSE IF p.cwd = <<>> THEN [failure |-> "cwd", dir |-> <<>>, name |-> <<>>]
  ELSE [failure |-> "", dir |-> p.cwd, name |-> <<>>]

\* the programs after ResolveReferences has returned nil: where they give up;
\* written tells whether the write succeeds
WriteRoot(p, written) ==
  IF p.outputFile # <<>>
  THEN IF Abs(p.cwd, p.outputFile).e # "" THEN "output path"
       ELSE IF ~written THEN "output write" ELSE ""
  ELSE IF ~written THEN "stdout" ELSE ""

Exited(p, failure) ==
  [p EXCEPT !.pc = "exited", !.failure = failure, !.exit = ExitStatus(p.program, failure)]

Init ==
  \E c \in RootDocuments, cfg \in Configs :
    LET a == Alloc(DocTree("a.yaml", c), 1) IN
    /\ heap = a.h
    /\ docs = <<NewDocument(cfg, <<"/", "dir">>, <<"a.yaml">>, a.v)>>
    /\ stack = <<Frame(1)>>
    /\ reads = <<>>
    /\ status = "running"
    /\ pass = 1
    /\ trees = <<Ser(a.h, a.v)>>
    /\ proc = NoProcess

\* ResolveReferences, discovery: rootObject and its references
Discover ==
  /\ status = "running" /\ Top.pc = "discover"
  /\ \E out \in references(heap, Obj(DocPtr(Top.d), RootItem, 0, TopDoc.Root)) :
       IF out.e = ""
       THEN /\ stack' = SetTop([Top EXCEPT !.disc = out.r, !.pc = "sort"])
            /\ UNCHANGED status
       ELSE Failed(out.e)
  /\ UNCHANGED <<heap, docs, reads, pass, trees, proc>>

\* ResolveReferences, the sort of the references found
Sort ==
  /\ status = "running" /\ Top.pc = "sort"
  /\ \E sorted \in SortResults(Top.disc) :
       stack' = SetTop([Top EXCEPT !.refs = sorted, !.i = 1, !.pc = "resolve"])
  /\ UNCHANGED <<heap, docs, reads, status, pass, trees, proc>>

Resolving == status = "running" /\ Top.pc = "resolve" /\ Top.i <= Len(Top.refs)

CurRef == Top.refs[Top.i]

DocumentFilePath == Join(TopDoc.RefDirectory, getDocumentPath(CurRef.path))

\* a loop that stays at the reference it has processed
Stepped_stay(r) ==
  /\ heap' = r.h
  /\ UNCHANGED <<stack, status>>

\* the step of the loop ends: with error e, or on to the next reference
Stepped(r) ==
  IF r.e = ""
  THEN /\ heap' = r.h
       /\ stack' = SetTop([Top EXCEPT !.i = @ + 1])
       /\ UNCHANGED status
  ELSE /\ heap' = r.h
       /\ Failed(r.e)

\* the loop of ResolveReferences on a local reference it skips
SkipLocal ==
  /\ Resolving /\ isLocalReference(CurRef.path)
  /\ TopDoc.Cfg.InlineLocalRefs
  /\ stack' = SetTop([Top EXCEPT !.i = @ + 1])
  /\ UNCHANGED <<heap, docs, reads, status, pass, trees, proc>>

\* section 4.5, local branch: once the reference is inlined, its target is
\* cleared unless keep-local is set
clearIfNotKept(cfg, r, root, path) ==
  IF r.e = "" /\ ~cfg.KeepLocalRefs
  THEN clearTarget(r.h, root, path)
  ELSE r

\* the loop of ResolveReferences on a local reference it assigns
AssignLocal ==
  /\ Resolving /\ isLocalReference(CurRef.path)
  /\ ~TopDoc.Cfg.InlineLocalRefs
  /\ \E r \in {clearIfNotKept(TopDoc.Cfg, assignReference(heap, TopDoc.Root, CurRef),
                              TopDoc.Root, CurRef.path)} : Stepped(r)
  /\ UNCHANGED <<docs, reads, pass, trees, proc>>

\* a getReferencedDocument that never finds a document in ReferencedDocuments
Cached_never == FALSE

Cached == DocumentFilePath \in DOMAIN TopDoc.ReferencedDocuments

ReferencedDocument == docs[TopDoc.ReferencedDocuments[DocumentFilePath]]

\* the configuration getReferencedDocument hands to ParseDocument
ReferencedConfig(cfg) == cfg

\* getReferencedDocument on a file that is not in ReferencedDocuments:
\* ParseDocument reads the file and calls ResolveReferences on the new Document
LoadDocument ==
  /\ Resolving /\ ~isLocalReference(CurRef.path)
  /\ ~Cached
  /\ IF DocumentFilePath \in DOMAIN Files
     THEN LET a == Alloc(DocTree(Base(DocumentFilePath)[1], Files[DocumentFilePath]),
                         NextAddr(heap))
          IN  /\ heap' = heap @@ a.h
              /\ docs' = Append(docs, NewDocument(ReferencedConfig(TopDoc.Cfg),
                                                  Dir(DocumentFilePath),
                                                  Base(DocumentFilePath), a.v))
              /\ stack' = Append(stack, Frame(Len(docs) + 1))
              /\ reads' = Append(reads, [by |-> Top.d, file |-> DocumentFilePath])
              /\ UNCHANGED status
     ELSE /\ Failed("could not get reference document")
          /\ UNCHANGED <<heap, docs, reads>>
  /\ UNCHANGED <<pass, trees, proc>>

\* ParseDocument returns the resolved Document: getReferencedDocument stores it
ReturnDocument ==
  /\ status = "running" /\ Len(stack) > 1 /\ Top.pc = "done"
  /\ LET caller == stack[Len(stack) - 1]
         key == Join(docs[caller.d].RefDirectory, getDocumentPath(caller.refs[caller.i].path))
     IN  /\ docs' = [docs EXCEPT ![caller.d].ReferencedDocuments = (key :> Top.d) @@ @]
         /\ stack' = SubSeq(stack, 1, Len(stack) - 1)
  /\ UNCHANGED <<heap, reads, status, pass, trees, proc>>

\* a getReferencedDocument that stores the Document whose resolution failed
ReturnError_caching ==
  /\ status = "running" /\ Len(stack) > 1 /\ Top.pc = "failed"
  /\ LET caller == stack[Len(stack) - 1]
         key == Join(docs[caller.d].RefDirectory, getDocumentPath(caller.refs[caller.i].path))
     IN  docs' = [docs EXCEPT ![caller.d].ReferencedDocuments = (key :> Top.d) @@ @]
  /\ stack' = [SubSeq(stack, 1, Len(stack) - 1) EXCEPT ![Len(stack) - 1].pc = "failed"]
  /\ status' = IF Len(stack) = 2 THEN "error" ELSE status
  /\ UNCHANGED <<heap, reads, pass, trees, proc>>

\* ParseDocument returns an error: assignReference and the caller's loop return it
ReturnError ==
  /\ status = "running" /\ Len(stack) > 1 /\ Top.pc = "failed"
  /\ stack' = [SubSeq(stack, 1, Len(stack) - 1) EXCEPT ![Len(stack) - 1].pc = "failed"]
  /\ status' = IF Len(stack) = 2 THEN "error" ELSE status
  /\ UNCHANGED <<heap, docs, reads, pass, trees, proc>>

\* the loop on a remote reference whose document is at hand, the reference inlined
AssignRemote ==
  /\ Resolving /\ ~isLocalReference(CurRef.path)
  /\ Cached
  /\ TopDoc.Cfg.InlineRemoteRefs
  /\ \E r \in {assignReference(heap, ReferencedDocument.Root, CurRef)} : Stepped(r)
  /\ UNCHANGED <<docs, reads, pass, trees, proc>>

\* the loop on a remote reference whose document is at hand, the reference promoted
PromoteRemote ==
  /\ Resolving /\ ~isLocalReference(CurRef.path)
  /\ Cached
  /\ ~TopDoc.Cfg.InlineRemoteRefs
  /\ \E refItem \in {getItemByPath(heap, ReferencedDocument.Root, CurRef.path)} :
       \E r \in {IF refItem.e # "" THEN [h |-> heap, e |-> refItem.e]
                 ELSE promoteReference(heap, TopDoc.Root, CurRef, refItem.v)} : Stepped(r)
  /\ UNCHANGED <<docs, reads, pass, trees, proc>>

\* the loop of ResolveReferences ends: return nil
Complete ==
  /\ status = "running" /\ Top.pc = "resolve" /\ Top.i > Len(Top.refs)
  /\ stack' = SetTop([Top EXCEPT !.pc = "done"])
  /\ status' = IF Len(stack) = 1 THEN "ok" ELSE status
  /\ trees' = IF Len(stack) = 1 THEN Append(trees, Ser(heap, docs[1].Root)) ELSE trees
  /\ UNCHANGED <<heap, docs, reads, pass, proc>>

\* ResolveReferences is called on the resolved root document once more
ResolveAgain ==
  /\ status = "ok" /\ pass < MaxPasses
  /\ pass' = pass + 1
  /\ status' = "running"
  /\ stack' = <<Frame(1)>>
  /\ UNCHANGED <<heap, docs, reads, trees, proc>>

Next ==
  \/ Discover
  \/ Sort
  \/ SkipLocal
  \/ AssignLocal
  \/ LoadDocument
  \/ ReturnDocument
  \/ ReturnError
  \/ AssignRemote
  \/ PromoteRemote
  \/ Complete
  \/ ResolveAgain

Spec == Init /\ [][Next]_vars
(***************************************************************************)
(* Reading a state: what a run has left in the root document.              *)
(***************************************************************************)
\* the first call of ResolveReferences on the root document has returned nil
Succeeded == status = "ok" /\ pass = 1

RootCfg == docs[1].Cfg

\* the references discovery found in the root document, in discovery order
Discovered == stack[1].disc

\* what is now at the location where a reference was discovered
ValueAt(ref) == parse(heap, ref.object.p, ref.object.n, ref.object.i)

\* the reference path a value holds: the Ref field of a record, else none
RefOf(h, v) == IF v.k = "ptr" /\ Ref \in DOMAIN h[v.a].x THEN h[v.a].x[Ref].v ELSE <<>>

\* the serialised content found by walking a reference's pointer part from a root
ContentAt(h, root, path) ==
  IF getItemByPath(h, root, path).e = "" THEN Ser(h, getItemByPath(h, root, path).v)
  ELSE TNil

\* the Go name of the field of type t whose yaml key is tag
fieldNameByTag(t, tag) ==
  IF \E i \in 1..Len(Fields(t)) : getYamlKeyFromField(Fields(t)[i]) = tag
  THEN Fields(t)[CHOOSE i \in 1..Len(Fields(t)) : getYamlKeyFromField(Fields(t)[i]) = tag].n
  ELSE <<>>

\* the part of a serialised tree that a list of path items leads to
RECURSIVE TreeAt(_, _)
TreeAt(tr, items) ==
  IF items = <<>> THEN tr
  ELSE IF tr.k = "rec" /\ fieldNameByTag(tr.t, Head(items)) \in DOMAIN tr.x
  THEN TreeAt(tr.x[fieldNameByTag(tr.t, Head(items))], Tail(items))
  ELSE IF tr.k = "map" /\ Head(items) \in DOMAIN tr.x
  THEN TreeAt(tr.x[Head(items)], Tail(items))
  ELSE TNil

\* what the root document held at a pointer before resolution started
OriginalAt(path) == TreeAt(trees[1], referencePathToItems(path))

\* every reference path a serialised tree holds
RECURSIVE RefPaths(_)
RefPaths(tr) ==
  CASE tr.k = "rec" ->
         (IF Ref \in DOMAIN tr.x THEN {tr.x[Ref].v} ELSE {})
           \cup UNION {RefPaths(tr.x[f]) : f \in DOMAIN tr.x \ {Ref}}
    [] tr.k = "map" -> UNION {RefPaths(tr.x[key]) : key \in DOMAIN tr.x}
    [] tr.k = "seq" -> UNION {RefPaths(tr.s[i]) : i \in 1..Len(tr.s)}
    [] OTHER -> {}

\* the Document a remote reference of the root document names
RemoteDocument(path) ==
  docs[docs[1].ReferencedDocuments[Join(docs[1].RefDirectory, getDocumentPath(path))]]

\* the place of a reference in discovery order
DiscoveredAt(f, ref) == CHOOSE k \in 1..Len(f.disc) : f.disc[k] = ref

(***************************************************************************)
(* Ordering of the references (ref_utils.go sortReferences, sort.Slice)    *)
(***************************************************************************)
\* C8: in the order in which a call of ResolveReferences processes its
\* references, no local reference comes before a remote one
C8_RemoteBeforeLocal ==
  \A f \in 1..Len(stack) :
    stack[f].pc \in {"resolve", "done", "failed"} =>
      \A i, j \in 1..Len(stack[f].refs) :
        (i < j /\ isLocalReference(stack[f].refs[i].path))
          => isLocalReference(stack[f].refs[j].path)

\* a call is past a remote reference and at a local one, discovered in another order
C8_Witness ==
  /\ stack[1].pc = "resolve" /\ Len(stack) = 1
  /\ stack[1].i <= Len(stack[1].refs)
  /\ isLocalReference(stack[1].refs[stack[1].i].path)
  /\ \E j \in 1..(stack[1].i - 1) : ~isLocalReference(stack[1].refs[j].path)
  /\ stack[1].refs # stack[1].disc

RemoteDiscovered == {i \in 1..Len(Discovered) : ~isLocalReference(Discovered[i].path)}

\* the reference was discovered at the location of the root document that the
\* pointer part of path names
LocatedAt(ref, path) ==
  /\ ref.object.p.k = "map"
  /\ referencePathToItems(path) # <<>>
  /\ walkItems(heap, docs[1].Root,
               SubSeq(referencePathToItems(path), 1, Len(referencePathToItems(path)) - 1)) =
       [v |-> ref.object.p, e |-> ""]
  /\ referencePathToItems(path)[Len(referencePathToItems(path))] = ref.object.n

\* the reference was discovered at the very location its pointer part names
AtOwnPointer(ref) == LocatedAt(ref, ref.path)

\* no two remote references of the root document share a pointer part
DistinctPointers ==
  \A i, j \in RemoteDiscovered :
    getPathToReference(Discovered[i].path) = getPathToReference(Discovered[j].path) => i = j

\* the node that held d#/k1/.../kn holds #/k1/.../kn, and /k1/.../kn in the root
\* document yields what it yields in the resolved document d
Promoted(ref) ==
  /\ ValueAt(ref).e = ""
  /\ RefOf(heap, ValueAt(ref).v) = convertRemoteToLocalPath(ref.path)
  /\ ContentAt(heap, docs[1].Root, ref.path) # TNil
  /\ ContentAt(heap, docs[1].Root, ref.path) =
       ContentAt(heap, RemoteDocument(ref.path).Root, ref.path)

SameAsRemote(ref) ==
  /\ ContentAt(heap, docs[1].Root, ref.path) # TNil
  /\ ContentAt(heap, docs[1].Root, ref.path) =
       ContentAt(heap, RemoteDocument(ref.path).Root, ref.path)

LocalDiscovered == {i \in 1..Len(Discovered) : isLocalReference(Discovered[i].path)}

\* the node where the reference was found holds what its target held at first
HoldsTargetContent(ref) ==
  /\ ValueAt(ref).e = ""
  /\ RefOf(heap, ValueAt(ref).v) # ref.path
  /\ Ser(heap, ValueAt(ref).v) = OriginalAt(ref.path)

\* the node where the reference was found holds the reference as it did
Untouched(ref) ==
  /\ ValueAt(ref).e = ""
  /\ RefOf(heap, ValueAt(ref).v) = ref.path

\* C2 as stated: with inline-local and without keep-local, after success every
\* local reference node holds its target's content and every target is gone
C2_InlinedAndCleared ==
  (Succeeded /\ RootCfg.InlineLocalRefs /\ ~RootCfg.KeepLocalRefs) =>
    \A i \in LocalDiscovered :
      /\ HoldsTargetContent(Discovered[i])
      /\ ContentAt(heap, docs[1].Root, Discovered[i].path) = TNil

\* C3 as stated: with inline-local and keep-local, after success every local
\* reference node holds its target's content and every target holds what it held
C3_InlinedAndKept ==
  (Succeeded /\ RootCfg.InlineLocalRefs /\ RootCfg.KeepLocalRefs) =>
    \A i \in LocalDiscovered :
      /\ HoldsTargetContent(Discovered[i])
      /\ ContentAt(heap, docs[1].Root, Discovered[i].path) = OriginalAt(Discovered[i].path)

\* C4 as stated: without inline-local, after success every local reference node
\* holds its reference and no target that was there is gone
C4_LocalUntouched ==
  (Succeeded /\ ~RootCfg.InlineLocalRefs) =>
    \A i \in LocalDiscovered :
      /\ Untouched(Discovered[i])
      /\ OriginalAt(Discovered[i].path) # TNil
           => ContentAt(heap, docs[1].Root, Discovered[i].path) # TNil

\* the root document held local references only
LocalOnly == \A p \in RefPaths(trees[1]) : isLocalReference(p)

\* C5 as stated: without inline-local, on a document with local references
\* only, the tree after one resolution is the tree before it and the tree
\* after a second resolution is the tree after the first
C5_NoOpIdempotent ==
  (~RootCfg.InlineLocalRefs /\ LocalOnly) =>
    /\ Len(trees) >= 2 => trees[2] = trees[1]
    /\ Len(trees) >= 3 => trees[3] = trees[2]

\* the tree a file holds before it is resolved
FileTree(path) ==
  DocTree(Base(Join(docs[1].RefDirectory, getDocumentPath(path)))[1],
          Files[Join(docs[1].RefDirectory, getDocumentPath(path))])

\* the target of a remote reference is, or contains, local references of its file
TargetHasLocalRefs(path) ==
  /\ RefPaths(TreeAt(FileTree(path), referencePathToItems(path))) # {}
  /\ \A p \in RefPaths(TreeAt(FileTree(path), referencePathToItems(path))) :
       isLocalReference(p)

\* C6 as stated: every referenced document is resolved with inline-local set,
\* and what a promoted remote reference puts in the root document holds no
\* reference node when its target held local references of its file
C6_ForcedInlineLocal ==
  /\ \A d \in 2..Len(docs) : docs[d].Cfg.InlineLocalRefs
  /\ (Succeeded /\ ~RootCfg.InlineRemoteRefs) =>
       \A i \in RemoteDiscovered :
         TargetHasLocalRefs(Discovered[i].path)
           => RefPaths(ContentAt(heap, docs[1].Root, Discovered[i].path)) = {}

\* C10 as stated: with inline-local and without keep-local, after success the
\* node of a local reference to a location that held a remote reference holds
\* the remote content, not a reference and not nothing
C10_AliasHoldsRemoteContent ==
  (Succeeded /\ RootCfg.InlineLocalRefs /\ ~RootCfg.KeepLocalRefs) =>
    \A i \in LocalDiscovered : \A j \in RemoteDiscovered :
      LocatedAt(Discovered[j], Discovered[i].path) =>
        /\ ValueAt(Discovered[i]).e = ""
        /\ RefOf(heap, ValueAt(Discovered[i]).v) = <<>>
        /\ Ser(heap, ValueAt(Discovered[i]).v) # TNil
        /\ Ser(heap, ValueAt(Discovered[i]).v) =
             ContentAt(heap, RemoteDocument(Discovered[j].path).Root, Discovered[j].path)

(***************************************************************************)
(* Failure (document.go ResolveReferences, lines 553 to 572)               *)
(***************************************************************************)
\* the error the step on the current reference ends with, "" for none
StepError ==
  IF isLocalReference(CurRef.path)
  THEN IF TopDoc.Cfg.InlineLocalRefs THEN ""
       ELSE clearIfNotKept(TopDoc.Cfg, assignReference(heap, TopDoc.Root, CurRef),
                           TopDoc.Root, CurRef.path).e
  ELSE IF ~Cached
  THEN IF DocumentFilePath \in DOMAIN Files THEN "" ELSE "could not get reference document"
  ELSE IF TopDoc.Cfg.InlineRemoteRefs
  THEN assignReference(heap, ReferencedDocument.Root, CurRef).e
  ELSE IF getItemByPath(heap, ReferencedDocument.Root, CurRef.path).e # ""
  THEN getItemByPath(heap, ReferencedDocument.Root, CurRef.path).e
  ELSE promoteReference(heap, TopDoc.Root, CurRef,
                        getItemByPath(heap, ReferencedDocument.Root, CurRef.path).v).e

\* the calls in progress below the innermost one
Callers == SubSeq(stack, 1, Len(stack) - 1)

\* C11: a step that fails ends its call at that reference, the calls below
\* as they were; a call that has failed hands the error to its caller, which
\* ends at its own current reference; from then on nothing is written and no
\* reference is processed, and the run that has failed takes no further step
C11_StopsAtFirstFailure ==
  [][/\ (Resolving /\ StepError # "")
          => stack' = SetTop([Top EXCEPT !.pc = "failed"])
     /\ (status = "running" /\ Top.pc = "failed")
          => /\ heap' = heap
             /\ Len(stack) > 1
             /\ stack' = [Callers EXCEPT ![Len(stack) - 1].pc = "failed"]
     /\ status \in {"error", "panic"} => UNCHANGED vars]_vars

\* a run has failed at a reference after writing for an earlier one, with
\* references left that it never came to
C11_Witness ==
  /\ status = "error" /\ pass = 1
  /\ stack[1].pc = "failed"
  /\ 1 < stack[1].i /\ stack[1].i < Len(stack[1].refs)
  /\ Ser(heap, docs[1].Root) # trees[1]
  /\ Untouched(stack[1].refs[Len(stack[1].refs)])

(***************************************************************************)
(* Inlining of every reference (document.go, lines 539 to 575; README)     *)
(***************************************************************************)
\* C12 as stated: with inline-local and with remote references inlined, after
\* success no node of the root document has a non-empty reference field
C12_NoReferenceLeft ==
  (Succeeded /\ RootCfg.InlineLocalRefs /\ RootCfg.InlineRemoteRefs) =>
    RefPaths(trees[2]) = {}

(***************************************************************************)
(* Termination.  The program is one sequential process: a call in progress *)
(* always takes its next step.                                             *)
(***************************************************************************)
FairSpec == Spec /\ WF_vars(Next)

\* C13: every call of ResolveReferences on a root document whose references,
\* local and across files, form no cycle comes to an end, with success or
\* with an error
C13_Terminates == (status = "running") ~> (status \in {"ok", "error", "panic"})

\* a run over three files has come to an end
C13_Witness ==
  /\ status \in {"ok", "error"}
  /\ Len(docs) >= 3
  /\ Len(stack) = 1


(***************************************************************************)
(* A run of one of the two programs: the flags, the input and the working  *)
(* directory are drawn, the root document is read, its references are      *)
(* resolved, the result is written and the process ends with a status.     *)
(***************************************************************************)
\* what the input holds when it can be read and parsed
MainDocuments ==
  { Content((<<"p1">> :> RemoteTo("b.yaml", "X")) @@ (<<"p2">> :> LocalTo("Users")),
            (<<"Users">> :> <<>>), TRUE),
    Content((<<"p1">> :> RemoteTo("d.yaml", "Q")), (<<"Users">> :> <<>>), TRUE) }

\* the flags input-file, output-file and ref-dir (<<>> when not given), the
\* working directory, and inline-local, inline-remote and keep-local; main has
\* no inline-remote
MainInit ==
  \E program \in {"cmd", "lib"},
     inputFile \in {<<>>, <<"a.yaml">>, <<"/", "in", "/", "a.yaml">>},
     outputFile \in {<<>>, <<"out.yaml">>},
     refDirectory \in {<<>>, <<"/", "dir">>},
     cwd \in {<<>>, <<"/", "dir">>} :
    \E cfg \in {f \in Configs : program = "cmd" => ~f.InlineRemoteRefs} :
      LET a == Alloc(TRec("OpenAPI", EmptyFn), 1) IN
      /\ heap = a.h
      /\ docs = <<NewDocument(cfg, <<>>, <<>>, a.v)>>
      /\ stack = <<>>
      /\ reads = <<>>
      /\ status = "starting"
      /\ pass = 1
      /\ trees = <<>>
      /\ proc = Process(program, inputFile, outputFile, refDirectory, cwd)

\* the program reads the root document and sets its reference directory
Start ==
  /\ proc.pc = "start"
  /\ \E input \in {"ok", "unreadable", "malformed"}, c \in MainDocuments :
       \E r \in {ReadRoot(proc, input)} :
         IF r.failure # ""
         THEN /\ proc' = Exited(proc, r.failure)
              /\ UNCHANGED <<heap, docs, stack, status, trees>>
         ELSE \E a \in {Alloc(DocTree("a.yaml", c), 1)} :
                /\ heap' = a.h
                /\ docs' = <<NewDocument(docs[1].Cfg, r.dir, r.name, a.v)>>
                /\ stack' = <<Frame(1)>>
                /\ status' = "running"
                /\ trees' = <<Ser(a.h, a.v)>>
                /\ proc' = [proc EXCEPT !.pc = "resolve"]
  /\ UNCHANGED <<reads, pass>>

\* the output the programs call for once the path of the output file is found
Output(p) == IF p.outputFile # <<>> THEN "file" ELSE "stdout"

\* a program that writes the document whatever ResolveReferences returned
Finish_writeAnyway ==
  /\ proc.pc = "resolve" /\ proc.program # "none"
  /\ status \in {"ok", "error", "panic"}
  /\ \E written \in BOOLEAN :
       proc' = [Exited(proc, IF status = "panic" THEN "panic"
                             ELSE IF status = "error" THEN "resolve"
                             ELSE WriteRoot(proc, written))
                  EXCEPT !.out = Output(proc)]
  /\ UNCHANGED <<heap, docs, stack, reads, status, pass, trees>>

\* ResolveReferences has returned: the program writes the document and ends
Finish ==
  /\ proc.pc = "resolve" /\ proc.program # "none"
  /\ status \in {"ok", "error", "panic"}
  /\ \E written \in BOOLEAN :
       proc' = IF status = "panic" THEN Exited(proc, "panic")
               ELSE IF status = "error" THEN Exited(proc, "resolve")
               ELSE IF WriteRoot(proc, written) = "output path"
               THEN Exited(proc, "output path")
               ELSE [Exited(proc, WriteRoot(proc, written)) EXCEPT !.out = Output(proc)]
  /\ UNCHANGED <<heap, docs, stack, reads, status, pass, trees>>

MainNext ==
  \/ Start
  \/ Discover
  \/ Sort
  \/ SkipLocal
  \/ AssignLocal
  \/ LoadDocument
  \/ ReturnDocument
  \/ ReturnError
  \/ AssignRemote
  \/ PromoteRemote
  \/ Complete
  \/ Finish

MainSpec == MainInit /\ [][MainNext]_vars

\* C14: the status with which a program ends is 0 exactly when reading, resolving
\* and writing have all succeeded, and no other place of failure gives the status
\* that this place of failure gives
C14_StatusTellsOutcome ==
  proc.pc = "exited" =>
    /\ (proc.exit = NoError) <=> (proc.failure = "")
    /\ \A f \in Failures \ {proc.failure} : ExitStatus(proc.program, f) # proc.exit

\* C15: once the root document is read, its reference directory is the ref-dir
\* flag when that is given, else the directory of the input file, else the
\* working directory
C15_BaseDirectory ==
  (proc.program # "none" /\ status # "starting") =>
    docs[1].RefDirectory =
      IF proc.refDirectory # <<>> THEN proc.refDirectory
      ELSE IF proc.inputFile # <<>> THEN Dir(Abs(proc.cwd, proc.inputFile).v)
      ELSE proc.cwd

(***************************************************************************)
(* Remote references and the inline-remote flag                            *)
(***************************************************************************)
\* the node where the remote reference was found holds what its pointer part
\* yields in the resolved remote document
InlinedRemote(ref) ==
  /\ ValueAt(ref).e = ""
  /\ ContentAt(heap, RemoteDocument(ref.path).Root, ref.path) # TNil
  /\ Ser(heap, ValueAt(ref).v) = ContentAt(heap, RemoteDocument(ref.path).Root, ref.path)

DiscoveryDocuments ==
  LET ref(name) == (<<"Ref">> :> TStr(LocalTo(name)))
      type == (<<"Type">> :> TStr(<<"string">>))
      SchemaShapes ==
        { type,
          ref("S"),
          ref("S") @@ (<<"Items">> :> TRec("Schema", ref("T"))),
          (<<"Items">> :> TRec("Schema", ref("T"))),
          (<<"AllOf">> :> TSeq(<<TRec("Schema", ref("S")), TRec("Schema", type)>>)),
          type @@ (<<"XML">> :> [TStr(<<"x">>) EXCEPT !.k = "val"]) }
      content(x) == (<<"Content">> :> TMap((<<"json">> :> TRec("MediaType", x))))
      ResponseShapes ==
        { (<<"Description">> :> TStr(<<"d">>)), ref("Users"), content(ref("M")) }
          \cup {content((<<"Schema">> :> TRec("Schema", x))) : x \in SchemaShapes}
          \cup {ref("Users") @@ content((<<"Schema">> :> TRec("Schema", x))) : x \in SchemaShapes}
      TagShapes == {<<>>, <<TStr(<<"pets">>)>>, <<TStr(Ref)>>, <<TStr(<<"pets">>), TStr(Ref)>>}
      operation(r, tags, sec) ==
        TRec("Operation",
             (<<"Responses">> :> TMap((<<"200">> :> TRec("Response", r))))
             @@ (IF tags = <<>> THEN EmptyFn ELSE (<<"Tags">> :> TSeq(tags)))
             @@ (IF ~sec THEN EmptyFn
                 ELSE (<<"Security">> :>
                         [TMap((<<"api_key">> :> TSeq(<<>>))) EXCEPT !.k = "pmap"])))
      components == (<<"Components">> :> TRec("Components", (<<"Responses">> :>
                       TMap((<<"Users">> :> TRec("Response", (<<"Description">> :> TStr(<<"d">>))))
                            @@ (<<"Other">> :> TRec("Response", ref("Users")))))))
  IN  {TRec("OpenAPI",
            (<<"Paths">> :> TMap((<<"p1">> :> TRec("PathItem",
                                    (<<"Get">> :> operation(r, tags, sec))))))
            @@ (IF comps THEN components ELSE EmptyFn)) :
         r \in ResponseShapes, tags \in TagShapes, sec \in BOOLEAN, comps \in BOOLEAN}

DiscoveryInit ==
  \E tr \in DiscoveryDocuments :
    LET a == Alloc(tr, 1) IN
    /\ heap = a.h
    /\ docs = <<NewDocument([InlineLocalRefs |-> FALSE, InlineRemoteRefs |-> FALSE,
                             KeepLocalRefs |-> FALSE],
                            <<"/", "dir">>, <<"a.yaml">>, a.v)>>
    /\ stack = <<Frame(1)>>
    /\ reads = <<>>
    /\ status = "running"
    /\ pass = 1
    /\ trees = <<Ser(a.h, a.v)>>
    /\ proc = NoProcess

DiscoverySpec == DiscoveryInit /\ [][Discover]_vars

\* a record whose reference field is not empty
IsRefNode(h, v) == v.k = "ptr" /\ RefOf(h, v) # <<>>

\* the values met going down from v through the non-empty fields of records,
\* entries of maps and elements of slices; below a record whose reference
\* field is not empty only when through is set
RECURSIVE Descended(_, _, _)
Descended(h, v, through) ==
  {v} \cup
    CASE v.k = "ptr" /\ (through \/ ~IsRefNode(h, v)) ->
           UNION {Descended(h, h[v.a].x[f], through) :
                    f \in {g \in DOMAIN h[v.a].x : ~IsZero(h[v.a].x[g])}}
      [] v.k \in {"map", "ptrmap"} ->
           UNION {Descended(h, h[v.a].x[key], through) :
                    key \in {g \in DOMAIN h[v.a].x : ~IsZero(h[v.a].x[g])}}
      [] v.k = "slice" ->
           UNION {Descended(h, h[v.a].s[i], through) :
                    i \in {j \in 1..Len(h[v.a].s) : ~IsZero(h[v.a].s[j])}}
      [] OTHER -> {}

\* C17: for a record whose reference field is not empty, wherever that field
\* stands among the fields, parsePtrValue gives the path and no field to descend
\* into, references gives one reference, anchored at the record's location, and
\* once discovery has returned no reference found is anchored below the record
C17_ShortCircuits ==
  \A a \in DOMAIN heap :
    IsRefNode(heap, Ptr(a)) =>
      /\ \A q \in Perms(1..Len(Fields(heap[a].t))) :
           parsePtrFrom(heap, a, [i \in 1..Len(Fields(heap[a].t)) |-> Fields(heap[a].t)[q[i]]],
                        1, <<>>)
             = [ref |-> RefOf(heap, Ptr(a)), fields |-> <<>>]
      /\ \A o \in {Obj(DocPtr(1), RootItem, 0, Ptr(a))} :
           references(heap, o) = {Outcome(<<[object |-> o, path |-> RefOf(heap, Ptr(a))]>>, "")}
      /\ stack[1].pc = "sort" =>
           \A i \in 1..Len(Discovered) :
             Discovered[i].object.inst \notin Descended(heap, Ptr(a), TRUE) \ {Ptr(a)}

\* discovery has returned one reference for a record that has a reference and,
\* in another field, a record with a reference
C17_Witness ==
  /\ stack[1].pc = "sort"
  /\ \E i \in 1..Len(Discovered) :
       /\ IsRefNode(heap, Discovered[i].object.inst)
       /\ \E v \in Descended(heap, Discovered[i].object.inst, TRUE) \ {Discovered[i].object.inst} :
            IsRefNode(heap, v)

\* C18: once discovery has returned, every reference found is anchored at a
\* record whose reference field holds the reference's path, and the records
\* the references are anchored at are, one reference each, the records with a
\* reference field met going down from the root without passing below one
C18_ManifestExact ==
  (status = "running" /\ stack[1].pc = "sort") =>
    /\ \A i \in 1..Len(Discovered) :
         /\ ValueAt(Discovered[i]).e = ""
         /\ IsRefNode(heap, ValueAt(Discovered[i]).v)
         /\ RefOf(heap, ValueAt(Discovered[i]).v) = Discovered[i].path
    /\ {Discovered[i].object.inst : i \in 1..Len(Discovered)}
         = {v \in Descended(heap, docs[1].Root, FALSE) : IsRefNode(heap, v)}
    /\ Len(Discovered)
         = Cardinality({v \in Descended(heap, docs[1].Root, FALSE) : IsRefNode(heap, v)})

\* C19: discovery never panics, and it returns an error exactly when going down
\* from the root it meets a non-empty value that is neither a record, a map nor
\* a slice
C19_ErrorsNotCrashes ==
  stack[1].pc # "discover" =>
    /\ status # "panic"
    /\ (status = "error") <=>
         (\E v \in Descended(heap, docs[1].Root, FALSE) : Composite(v) /\ Kind(v) = "Struct")

(***************************************************************************)
(* The functions of ref_utils.go on reference paths of every form: a       *)
(* document holds one reference whose path is any sequence of up to        *)
(* MaxPathLen characters out of a letter, the reference separator and the  *)
(* path separator, and ResolveReferences works on it.                      *)
(***************************************************************************)
MaxPathLen == 4

PathInit ==
  \E n \in 1..MaxPathLen :
    \E path \in [1..n -> {"a", referenceSeparator, pathSeparator}] :
      \E cfg \in {c \in Configs : c.KeepLocalRefs /\ ~c.InlineRemoteRefs} :
        LET a == Alloc(DocTree("a.yaml", Content((<<"p1">> :> path), (<<"Users">> :> <<>>), TRUE)), 1)
        IN  /\ heap = a.h
            /\ docs = <<NewDocument(cfg, <<"/", "dir">>, <<"a.yaml">>, a.v)>>
            /\ stack = <<Frame(1)>>
            /\ reads = <<>>
            /\ status = "running"
            /\ pass = 1
            /\ trees = <<Ser(a.h, a.v)>>
            /\ proc = NoProcess

PathNext ==
  \/ Discover
  \/ Sort
  \/ SkipLocal
  \/ AssignLocal
  \/ LoadDocument

PathSpec == PathInit /\ [][PathNext]_vars

\* the path has one reference separator
OneSeparator(path) == Cardinality({i \in 1..Len(path) : path[i] = referenceSeparator}) = 1

\* C20 as stated: for a path with one separator getPathToReference is the path
\* from the separator on, separator included, getDocumentPath followed by it
\* is the path, and for a local path it is the path and getDocumentPath is empty
C20_PointerFromSeparator ==
  \A i \in 1..Len(Discovered) :
    OneSeparator(Discovered[i].path) =>
      /\ getPathToReference(Discovered[i].path)
           = SubSeq(Discovered[i].path,
                    IndexRune(Discovered[i].path, referenceSeparator) + 1,
                    Len(Discovered[i].path))
      /\ getDocumentPath(Discovered[i].path) \o getPathToReference(Discovered[i].path)
           = Discovered[i].path
      /\ isLocalReference(Discovered[i].path) =>
           /\ getPathToReference(Discovered[i].path) = Discovered[i].path
           /\ getDocumentPath(Discovered[i].path) = <<>>

\* C20, amended: for a local path getPathToReference is the path and
\* getDocumentPath is empty; for a remote path with one separator
\* getPathToReference is what follows the separator, getDocumentPath what
\* precedes it, and the two with the separator between them are the path
C20_PointerAfterSeparator ==
  \A i \in 1..Len(Discovered) :
    OneSeparator(Discovered[i].path) =>
      IF isLocalReference(Discovered[i].path)
      THEN /\ getPathToReference(Discovered[i].path) = Discovered[i].path
           /\ getDocumentPath(Discovered[i].path) = <<>>
      ELSE /\ getPathToReference(Discovered[i].path)
                = SubSeq(Discovered[i].path,
                         IndexRune(Discovered[i].path, referenceSeparator) + 2,
                         Len(Discovered[i].path))
           /\ getDocumentPath(Discovered[i].path)
                = SubSeq(Discovered[i].path, 1,
                         IndexRune(Discovered[i].path, referenceSeparator))
           /\ getDocumentPath(Discovered[i].path) \o <<referenceSeparator>>
                \o getPathToReference(Discovered[i].path) = Discovered[i].path

\* discovery has found a remote path with one separator and a pointer after it
C20_Witness ==
  \E i \in 1..Len(Discovered) :
    /\ OneSeparator(Discovered[i].path)
    /\ ~isLocalReference(Discovered[i].path)
    /\ Len(getPathToReference(Discovered[i].path)) = 2
    /\ Top.pc = "failed"

\* C21: for a remote path d#/k1/.../kn with one separator,
\* convertRemoteToLocalPath gives #/k1/.../kn, which isLocalReference finds
\* local, and referencePathToItems gives the same items k1, ..., kn for both
C21_PromotedPathKeepsItems ==
  \A i \in 1..Len(Discovered) :
    (OneSeparator(Discovered[i].path) /\ ~isLocalReference(Discovered[i].path)) =>
      /\ convertRemoteToLocalPath(Discovered[i].path)
           = SubSeq(Discovered[i].path,
                    IndexRune(Discovered[i].path, referenceSeparator) + 1,
                    Len(Discovered[i].path))
      /\ isLocalReference(convertRemoteToLocalPath(Discovered[i].path))
      /\ referencePathToItems(convertRemoteToLocalPath(Discovered[i].path))
           = referencePathToItems(Discovered[i].path)
      /\ referencePathToItems(Discovered[i].path)
           = Tail(Split(SubSeq(Discovered[i].path,
                               IndexRune(Discovered[i].path, referenceSeparator) + 2,
                               Len(Discovered[i].path)), pathSeparator))

\* discovery has found the remote path a#/a, whose only item is a
C21_Witness ==
  \E i \in 1..Len(Discovered) :
    /\ OneSeparator(Discovered[i].path)
    /\ ~isLocalReference(Discovered[i].path)
    /\ referencePathToItems(Discovered[i].path) = <<<<"a">>>>
    /\ Top.pc = "sort"

(***************************************************************************)
(* The operations of an OasObject, applied to every location of the heaps  *)
(* that the runs of ResolveReferences go through.                          *)
(***************************************************************************)
\* the records, maps and slices of a heap, as parents of locations
Parents(h) ==
  {IF h[a].k = "struct" THEN Ptr(a) ELSE IF h[a].k = "map" THEN MapV(a) ELSE SliceV(a) :
     a \in DOMAIN h}

\* C22 as stated: for a map and a key that the map does not have, Set and
\* replaceReference return an error and leave the heap as it is
C22_SetFailsOnAbsentKey ==
  \A p \in Parents(heap) :
    p.k = "map" =>
      \A n \in {<<"Nope">>, <<"W">>} \ DOMAIN heap[p.a].x :
        \A val \in {heap[p.a].x[key] : key \in DOMAIN heap[p.a].x} \cup {NilPtr} :
          /\ Set(heap, Obj(p, n, 0, NilIface), val).e \notin {"", "panic"}
          /\ Set(heap, Obj(p, n, 0, NilIface), val).h = heap
          /\ replaceReference(heap, Obj(p, n, 0, NilIface), val).e \notin {"", "panic"}
          /\ replaceReference(heap, Obj(p, n, 0, NilIface), val).h = heap

\* C22, amended: for a map and a key that the map does not have,
\* replaceReference returns an error and leaves the heap as it is, and Set
\* returns no error and adds the entry, every other entry and object unchanged
C22_SetInsertsReplaceFails ==
  \A p \in Parents(heap) :
    p.k = "map" =>
      \A n \in {<<"Nope">>, <<"W">>} \ DOMAIN heap[p.a].x :
        \A val \in {heap[p.a].x[key] : key \in DOMAIN heap[p.a].x} \cup {NilPtr} :
          /\ replaceReference(heap, Obj(p, n, 0, NilIface), val).e \notin {"", "panic"}
          /\ replaceReference(heap, Obj(p, n, 0, NilIface), val).h = heap
          /\ Set(heap, Obj(p, n, 0, NilIface), val)
               = [h |-> [heap EXCEPT ![p.a].x = (n :> val) @@ heap[p.a].x], e |-> ""]

\* after a resolution a map that has entries and no key W is given one of
\* its values under W by Set, and refused the same by replaceReference
C22_Witness ==
  /\ Succeeded
  /\ \E p \in Parents(heap) :
       /\ p.k = "map" /\ <<"W">> \notin DOMAIN heap[p.a].x
       /\ \E key \in DOMAIN heap[p.a].x :
            /\ DOMAIN Set(heap, Obj(p, <<"W">>, 0, NilIface), heap[p.a].x[key]).h[p.a].x
                 = DOMAIN heap[p.a].x \cup {<<"W">>}
            /\ replaceReference(heap, Obj(p, <<"W">>, 0, NilIface), heap[p.a].x[key]).e # ""

\* the locations of a heap: every field of a record, key of a map and index
\* of a slice, as NewOasObjectByName and NewOasObjectByIdx make them
Locations(h) ==
  UNION {IF p.k = "slice"
         THEN {Obj(p, <<>>, i - 1, h[p.a].s[i]) : i \in 1..Len(h[p.a].s)}
         ELSE {Obj(p, n, 0, h[p.a].x[n]) : n \in DOMAIN h[p.a].x} : p \in Parents(h)}

\* C23: Unset on a field of a record, an entry of a map or an element of a
\* slice returns no error, the location then holds a zero value or is absent,
\* and every other field, entry, element and object is as it was
C23_ClearZeroes ==
  \A o \in Locations(heap) :
    /\ Unset(heap, o).e = ""
    /\ \A a \in DOMAIN heap \ {o.p.a} : Unset(heap, o).h[a] = heap[a]
    /\ IF o.p.k = "slice"
       THEN /\ Len(Unset(heap, o).h[o.p.a].s) = Len(heap[o.p.a].s)
            /\ \A i \in 1..Len(heap[o.p.a].s) :
                 IF i = o.i + 1 THEN IsZero(Unset(heap, o).h[o.p.a].s[i])
                 ELSE Unset(heap, o).h[o.p.a].s[i] = heap[o.p.a].s[i]
       ELSE /\ DOMAIN heap[o.p.a].x \ {o.n} \subseteq DOMAIN Unset(heap, o).h[o.p.a].x
            /\ \A n \in DOMAIN Unset(heap, o).h[o.p.a].x :
                 IF n = o.n THEN IsZero(Unset(heap, o).h[o.p.a].x[n])
                 ELSE Unset(heap, o).h[o.p.a].x[n] = heap[o.p.a].x[n]

\* C24: Init on a field of a record that holds the zero value of a map type
\* or of a pointer-to-record type returns no error, and the object made at
\* that location afterwards is got without an error
C24_InitMakesLive ==
  \A o \in Locations(heap) :
    (o.p.k = "ptr" /\ IsZero(o.inst) /\ FieldOf(heap[o.p.a].t, o.n).kind \in {"map", "ptr"}) =>
      /\ InitObject(heap, o).e = ""
      /\ parse(InitObject(heap, o).h, o.p, o.n, 0).e = ""

\* C25: parse returns an error and does not panic when the parent is a string
\* or no value at all, when the parent is a map without the key, when the
\* parent is a record whose type has no field of the name, and when the
\* parent is a record whose field of the name holds a zero value
C25_GetFailsWithError ==
  /\ \A o \in Locations(heap) :
       (Kind(o.inst) \in {"String", "Invalid"}) =>
         parse(heap, o.inst, <<"Nope">>, 0).e \notin {"", "panic"}
  /\ \A p \in Parents(heap) :
       /\ (p.k = "map" /\ <<"Nope">> \notin DOMAIN heap[p.a].x) =>
            parse(heap, p, <<"Nope">>, 0).e \notin {"", "panic"}
       /\ (p.k = "ptr" /\ <<"Nope">> \notin FieldNames(heap[p.a].t)) =>
            parse(heap, p, <<"Nope">>, 0).e \notin {"", "panic"}
       /\ p.k = "ptr" =>
            \A n \in FieldNames(heap[p.a].t) :
              IsZero(heap[p.a].x[n]) => parse(heap, p, n, 0).e \notin {"", "panic"}

\* C26: a Document enters ReferencedDocuments only in the step in which its
\* own ResolveReferences has returned nil, a Document whose ResolveReferences
\* or whose file failed enters no ReferencedDocuments, and a step that
\* assigns a remote reference has the file's Document in ReferencedDocuments,
\* with no ResolveReferences of that Document still going on
C26_SourceAfterResolution ==
  [][
       /\ \A c \in 1..Len(docs) :
          \A key \in DOMAIN docs'[c].ReferencedDocuments \ DOMAIN docs[c].ReferencedDocuments :
            /\ Len(stack) > 1 /\ Top.pc = "done"
            /\ docs'[c].ReferencedDocuments[key] = Top.d
            /\ c = stack[Len(stack) - 1].d
       /\ (Len(stack) > 1 /\ Top.pc = "failed") => docs' = docs
       /\ (Resolving /\ ~isLocalReference(CurRef.path) /\ DocumentFilePath \notin DOMAIN Files) =>
            docs' = docs
       /\ (Resolving /\ ~isLocalReference(CurRef.path) /\ heap' # heap /\ Len(stack') = Len(stack)) =>
            /\ Cached
            /\ \A i \in 1..Len(stack) : stack[i].d # TopDoc.ReferencedDocuments[DocumentFilePath]
     ]_vars

\* a resolution has succeeded in which a referenced Document had a
\* referenced Document of its own, each of them stored by the one that
\* referred to it
C26_Witness ==
  /\ Succeeded
  /\ \E c \in 2..Len(docs) :
       /\ c \in {docs[1].ReferencedDocuments[key] : key \in DOMAIN docs[1].ReferencedDocuments}
       /\ DOMAIN docs[c].ReferencedDocuments # {}

RECURSIVE resolveLocals(_, _, _, _)
resolveLocals(r, cfg, root, refs) ==
  IF refs = <<>> \/ r.e # "" THEN r
  ELSE resolveLocals(IF cfg.InlineLocalRefs THEN r
                     ELSE clearIfNotKept(cfg, assignReference(r.h, root, Head(refs)),
                                         root, Head(refs).path),
                     cfg, root, Tail(refs))

\* C28: for a document whose references are all local and whose targets are
\* kept, any two orders the sort can give lead the loop to the same error or,
\* without an error, to the same tree
C28_Deterministic ==
  (/\ status = "running" /\ Len(stack) = 1 /\ Top.pc = "sort"
   /\ TopDoc.Cfg.KeepLocalRefs
   /\ \A i \in 1..Len(Top.disc) : isLocalReference(Top.disc[i].path)) =>
    \A s1, s2 \in SortResults(Top.disc) :
      /\ resolveLocals([h |-> heap, e |-> ""], TopDoc.Cfg, TopDoc.Root, s1).e
           = resolveLocals([h |-> heap, e |-> ""], TopDoc.Cfg, TopDoc.Root, s2).e
      /\ resolveLocals([h |-> heap, e |-> ""], TopDoc.Cfg, TopDoc.Root, s1).e = "" =>
           Ser(resolveLocals([h |-> heap, e |-> ""], TopDoc.Cfg, TopDoc.Root, s1).h, TopDoc.Root)
             = Ser(resolveLocals([h |-> heap, e |-> ""], TopDoc.Cfg, TopDoc.Root, s2).h, TopDoc.Root)

\* C29: Init on a field of a record that holds a map with entries returns no
\* error and leaves every entry in the field's map; and when remote
\* references are promoted and local ones left in place, after success every
\* response of the root document that no remote reference names is as it was
C29_InitKeepsEntries ==
  /\ \A o \in Locations(heap) :
       (o.p.k = "ptr" /\ o.inst.k = "map" /\ DOMAIN heap[o.inst.a].x # {}) =>
         /\ InitObject(heap, o).e = ""
         /\ InitObject(heap, o).h[o.p.a].x[o.n].k = "map"
         /\ \A key \in DOMAIN heap[o.inst.a].x :
              /\ key \in DOMAIN InitObject(heap, o).h[InitObject(heap, o).h[o.p.a].x[o.n].a].x
              /\ InitObject(heap, o).h[InitObject(heap, o).h[o.p.a].x[o.n].a].x[key]
                   = heap[o.inst.a].x[key]
  /\ (Succeeded /\ ~RootCfg.InlineRemoteRefs /\ RootCfg.InlineLocalRefs
        /\ TreeAt(trees[1], <<<<"components">>, <<"responses">>>>).k = "map") =>
       \A key \in DOMAIN TreeAt(trees[1], <<<<"components">>, <<"responses">>>>).x :
         (\A i \in RemoteDiscovered :
            referencePathToItems(Discovered[i].path) # referencePathToItems(LocalTo(key[1]))) =>
           ContentAt(heap, docs[1].Root, LocalTo(key[1])) = OriginalAt(LocalTo(key[1]))

(***************************************************************************)
(* The phases of oasYamlCombine                                            *)
(***************************************************************************)
\* C30: oasYamlCombine goes from reading to resolving to its end; references
\* are resolved only once the root document is read; the document is written
\* only once ResolveReferences has returned nil; and when reading fails or
\* ResolveReferences returns an error, it returns the status of that phase
\* and has written nothing
C30_PhasesInOrder ==
  [][proc.program = "lib" =>
       /\ proc'.pc # proc.pc =>
            <<proc.pc, proc'.pc>> \in
              {<<"start", "resolve">>, <<"start", "exited">>, <<"resolve", "exited">>}
       /\ proc.pc = "start" => (status = "starting" /\ proc.out = "none")
       /\ stack' # stack => (proc.pc = "resolve" \/ (proc.pc = "start" /\ proc'.pc = "resolve"))
       /\ proc'.out # proc.out => (proc.pc = "resolve" /\ status = "ok")
       /\ (proc.pc = "start" /\ proc'.pc = "exited") =>
            /\ proc'.exit \in {InputFilepathErr, RootDocumentErr, InputStdinErr, RefDirCwdErr}
            /\ proc'.out = "none" /\ stack' = <<>>
       /\ (proc.pc = "resolve" /\ proc'.pc = "exited" /\ status = "error") =>
            /\ proc'.exit = RefResolveErr
            /\ proc'.out = "none"
       /\ (proc.pc = "resolve" /\ proc'.pc = "exited" /\ status = "ok") =>
            proc'.exit \in {NoError, OutputFilepathErr, OutputWriteErr, OutputStdoutErr}
    ]_vars

\* oasYamlCombine, given an output file, has ended with RefResolveErr after the
\* root document was read and ResolveReferences returned an error
C30_Witness ==
  /\ proc.program = "lib" /\ proc.pc = "exited" /\ proc.outputFile # <<>>
  /\ status = "error" /\ proc.exit = RefResolveErr /\ proc.out = "none"
  /\ Len(stack) = 1 /\ stack[1].pc = "failed"
====
